---- MODULE Spec2Model ----
(***************************************************************************)
(* NFL Combine Analytics Dashboard (src/app.py).                           *)
(*                                                                         *)
(* The dashboard is a Streamlit script: every widget interaction re-runs   *)
(* the whole script top to bottom against the same loaded table.  One      *)
(* action of this model is one such interaction: it changes one widget     *)
(* value and recomputes every output of the script.                        *)
(*                                                                         *)
(* Tables (DataFrames) are sequences of records; the field idx is the      *)
(* DataFrame index label, which pandas carries through boolean indexing,   *)
(* dropna, sort_values and head.  Metric values are integers; only order   *)
(* comparisons are ever applied to them by the code, so 1 < 2 < 3 stands   *)
(* for any three increasing measurements (4.4 < 4.6 < 4.8 seconds).        *)
(* Percentiles are exact rationals <<num, den>>.                           *)
(***************************************************************************)
EXTENDS Integers, Sequences, FiniteSets, TLC

(***************************************************************************)
(* Missing cells.                                                          *)
(***************************************************************************)
\* a numeric cell that pd.to_numeric(errors="coerce") left missing
NaN == -1
\* a missing (NaN) position cell; it never compares equal, not even to itself
NoPosition == "<NA>"
\* the result of Series.map for a school that is not in the dictionary
NoState == "<NA>"
\* the selectbox value when it has no options
None == "<None>"

IsNull(v) == v = NaN

\* elementwise == of pandas on an object column: NaN == x is False
PosEq(a, b) == a # NoPosition /\ b # NoPosition /\ a = b

\* variant of Lt: the non-strict comparison
LtOrEqual(v, x) == v # NaN /\ x # NaN /\ v <= x

\* elementwise < of pandas on a float column: any comparison with NaN is False
Lt(v, x) == v # NaN /\ x # NaN /\ v < x

(***************************************************************************)
(* Bounds of the model.                                                    *)
(***************************************************************************)
\* the loaded table is the sample roster less at most MaxDropped of its rows
MaxDropped == 1
\* positions of the top-N slider above its minimum that the user may pick
TopNSteps == 0

(***************************************************************************)
(* Program constants.                                                      *)
(***************************************************************************)
FirstYear == 2010
LastYear == 2023
TopNMin == 5
TopNMax == 50
TopNDefault == 10

compare_metrics == <<"forty", "vertical", "bench", "broad_jump", "threecone", "shuttle">>

\* variant of lower_better: one higher-is-better metric too many
lower_better_and_bench == <<"forty", "threecone", "shuttle", "bench">>

lower_better == <<"forty", "threecone", "shuttle">>

Range(s) == {s[i] : i \in DOMAIN s}

Metrics == Range(compare_metrics)

\* selectbox labels of the metric selector, in dictionary order
event_labels ==
  <<"40 Yard Dash (Fastest)", "Vertical Jump (Highest)", "Bench Press (Most Reps)",
    "Broad Jump (Highest)", "3 Cone Drill (Fastest)", "Shuttle (Fastest)">>

\* label -> (column, ascending)
event_options ==
  [l \in Range(event_labels) |->
     CASE l = "40 Yard Dash (Fastest)"  -> <<"forty", TRUE>>
       [] l = "Vertical Jump (Highest)" -> <<"vertical", FALSE>>
       [] l = "Bench Press (Most Reps)" -> <<"bench", FALSE>>
       [] l = "Broad Jump (Highest)"    -> <<"broad_jump", FALSE>>
       [] l = "3 Cone Drill (Fastest)"  -> <<"threecone", TRUE>>
       [] l = "Shuttle (Fastest)"       -> <<"shuttle", TRUE>>]

school_state_map ==
  [s \in {"Alabama", "Auburn", "Notre Dame", "LSU", "Ohio State", "Michigan",
          "Florida", "Florida State", "Georgia", "Texas", "Texas A&M",
          "Oklahoma", "USC", "UCLA", "Clemson", "Penn State", "Tennessee",
          "Oregon", "Washington", "Wisconsin", "Iowa", "North Carolina",
          "NC State", "South Carolina", "Arkansas", "Mississippi State",
          "Ole Miss", "Kentucky", "Miami (FL)"} |->
     CASE s \in {"Alabama", "Auburn"} -> "AL"
       [] s = "Notre Dame" -> "IN"
       [] s = "LSU" -> "LA"
       [] s = "Ohio State" -> "OH"
       [] s = "Michigan" -> "MI"
       [] s \in {"Florida", "Florida State", "Miami (FL)"} -> "FL"
       [] s = "Georgia" -> "GA"
       [] s \in {"Texas", "Texas A&M"} -> "TX"
       [] s = "Oklahoma" -> "OK"
       [] s \in {"USC", "UCLA"} -> "CA"
       [] s \in {"Clemson", "South Carolina"} -> "SC"
       [] s = "Penn State" -> "PA"
       [] s = "Tennessee" -> "TN"
       [] s = "Oregon" -> "OR"
       [] s = "Washington" -> "WA"
       [] s = "Wisconsin" -> "WI"
       [] s = "Iowa" -> "IA"
       [] s \in {"North Carolina", "NC State"} -> "NC"
       [] s = "Arkansas" -> "AR"
       [] s \in {"Mississippi State", "Ole Miss"} -> "MS"
       [] s = "Kentucky" -> "KY"]


(***************************************************************************)
(* Table helpers.                                                          *)
(***************************************************************************)
Min(a, b) == IF a <= b THEN a ELSE b

\* DataFrame.head(n)
Head_n(t, n) == SubSeq(t, 1, Min(n, Len(t)))

\* DataFrame[column]
Column(t, m) == [i \in DOMAIN t |-> t[i][m]]

\* DataFrame.dropna(subset=cols)
DropNa(t, cols) == SelectSeq(t, LAMBDA r : \A m \in cols : ~IsNull(r[m]))

(***************************************************************************)
(* Sidebar filters: filtered_df.                                           *)
(***************************************************************************)
\* variant of YearFilter: the upper bound exclusive
YearFilterExclusive(t, yr) == SelectSeq(t, LAMBDA r : r.year >= yr[1] /\ r.year < yr[2])

\* df[(df["year"] >= year_range[0]) & (df["year"] <= year_range[1])]
YearFilter(t, yr) == SelectSeq(t, LAMBDA r : r.year >= yr[1] /\ r.year <= yr[2])

\* filtered_df[filtered_df["position"] == selected_position]
PositionFilter(t, pos) == SelectSeq(t, LAMBDA r : PosEq(r.position, pos))

ApplyFilters(d, yr, pos) ==
  LET byYear == YearFilter(d, yr)
  IN  IF pos # "All" THEN PositionFilter(byYear, pos) ELSE byYear

\* sorted(df["position"].dropna().unique())  (as a set: the order is display only)
positions(d) == {d[i].position : i \in DOMAIN d} \ {NoPosition}

min_year(d) == CHOOSE y \in {d[i].year : i \in DOMAIN d} :
                 \A i \in DOMAIN d : y <= d[i].year

max_year(d) == CHOOSE y \in {d[i].year : i \in DOMAIN d} :
                 \A i \in DOMAIN d : y >= d[i].year

(***************************************************************************)
(* College production map: the state column and state_counts.              *)
(***************************************************************************)
\* Series.map(school_state_map)
MapSchool(s) == IF s \in DOMAIN school_state_map THEN school_state_map[s] ELSE NoState

\* filtered_df["state"] = filtered_df["school"].map(school_state_map)
WithState(t) ==
  [i \in DOMAIN t |->
     [idx |-> t[i].idx, player |-> t[i].player, position |-> t[i].position,
      school |-> t[i].school, year |-> t[i].year, forty |-> t[i].forty,
      vertical |-> t[i].vertical, bench |-> t[i].bench,
      broad_jump |-> t[i].broad_jump, threecone |-> t[i].threecone,
      shuttle |-> t[i].shuttle, state |-> MapSchool(t[i].school)]]

\* variant of StateDf: rows without a state are kept
StateDfKeepAll(f) == f

\* filtered_df.dropna(subset=["state"])
StateDf(f) == SelectSeq(f, LAMBDA r : r.state # NoState)

\* state_df.groupby("state").size(): one entry per state that has rows
StateCounts(f) ==
  LET sdf == StateDf(f)
  IN  [s \in {sdf[i].state : i \in DOMAIN sdf} |->
         Cardinality({i \in DOMAIN sdf : sdf[i].state = s})]

(***************************************************************************)
(* Ranking tables.                                                         *)
(***************************************************************************)
\* variant of KeyBefore: always ascending
KeyBeforeAscending(a, b, m, asc) == a[m] <= b[m]

\* whether row a may precede row b in the sorted table
KeyBefore(a, b, m, asc) == IF asc THEN a[m] <= b[m] ELSE a[m] >= b[m]

\* The orders sort_values(metric, ascending=...) may return.  The call leaves
\* kind at its default "quicksort", which pandas documents as not stable:
\* rows with equal keys may come out in any relative order.
RECURSIVE SortOrders(_, _, _, _)
SortOrders(t, m, asc, S) ==
  IF S = {} THEN {<<>>}
  ELSE UNION {{<<t[i]>> \o o : o \in SortOrders(t, m, asc, S \ {i})} :
                i \in {i \in S : \A j \in S : KeyBefore(t[i], t[j], m, asc)}}

SortValues(t, m, asc) == SortOrders(t, m, asc, DOMAIN t)

\* [["player", "position", "school", "year", metric]]
RankColumns(t, m) ==
  [i \in DOMAIN t |->
     [idx |-> t[i].idx, player |-> t[i].player, position |-> t[i].position,
      school |-> t[i].school, year |-> t[i].year, value |-> t[i][m]]]

\* the tables top_performers may be
TopPerformers(f, m, asc, n) ==
  LET performance_df == DropNa(f, {m})
  IN  {RankColumns(Head_n(s, n), m) : s \in SortValues(performance_df, m, asc)}

\* the tables all_time_top may be
AllTimeTop(d, pos, m, asc, n) ==
  LET nonNull == DropNa(d, {m})
      all_time_df == IF pos # "All" THEN PositionFilter(nonNull, pos) ELSE nonNull
  IN  {RankColumns(Head_n(s, n), m) : s \in SortValues(all_time_df, m, asc)}

(***************************************************************************)
(* Player comparison.                                                      *)
(***************************************************************************)
\* the float nan that Series.mean() returns for an empty series
NaNPct == <<0, 0>>

IsNaNPct(p) == p[2] = 0

\* (values < x).mean() * 100, as the exact rational <<num, den>>
MeanLt100(values, x) ==
  IF Len(values) = 0 THEN NaNPct
  ELSE <<100 * Cardinality({i \in DOMAIN values : Lt(values[i], x)}), Len(values)>>

\* 100 - p   (nan stays nan)
Sub100(p) == IF IsNaNPct(p) THEN NaNPct ELSE <<100 * p[2] - p[1], p[2]>>

\* variant of ComparisonSource: the comparison starts from the filtered view
FilteredSource(d, f) == f

\* comparison_df = df.copy(): the comparison starts from the whole table d,
\* not from the filtered view f
ComparisonSource(d, f) == d

\* comparison_df = comparison_df.dropna(subset=compare_metrics)
ComparisonDf(d) == DropNa(d, Metrics)

\* the sample names in the order sorted() gives them
NameOrder == <<"Adams", "Baker", "Cole", "Evans", "Ford">>

\* sorted(comparison_df["player"].unique())
PlayerList(cdf) == SelectSeq(NameOrder, LAMBDA n : \E i \in DOMAIN cdf : cdf[i].player = n)

HasPlayer(cdf, name) == \E i \in DOMAIN cdf : cdf[i].player = name

\* comparison_df[comparison_df["player"] == name].iloc[0]
PlayerData(cdf, name) ==
  cdf[CHOOSE i \in DOMAIN cdf :
        /\ cdf[i].player = name
        /\ \A j \in DOMAIN cdf : cdf[j].player = name => i <= j]

\* comparison_df[comparison_df["position"] == p1_data["position"]]
PositionDf(cdf, p1_data) == SelectSeq(cdf, LAMBDA r : PosEq(r.position, p1_data.position))

\* the dictionary the first loop fills for one player
RawPercentiles(position_df, p_data) ==
  [m \in Metrics |-> MeanLt100(Column(position_df, m), p_data[m])]

\* the second loop: for metric_name in lower_better: p[m] = 100 - p[m]
RECURSIVE ReverseLoop(_, _, _)
ReverseLoop(p, names, k) ==
  IF k > Len(names) THEN p
  ELSE ReverseLoop([p EXCEPT ![names[k]] = Sub100(@)], names, k + 1)

ReverseLowerBetter(p) == ReverseLoop(p, lower_better, 1)

\* Python's round() of a non-negative rational: to nearest, ties to even
Round(p) ==
  LET q == p[1] \div p[2]
      r == p[1] % p[2]
  IN  IF 2 * r < p[2] THEN q
      ELSE IF 2 * r > p[2] THEN q + 1
      ELSE IF q % 2 = 0 THEN q ELSE q + 1

\* ordinal(n): the number and its suffix
ordinal(n) ==
  <<n, IF 10 <= n % 100 /\ n % 100 <= 20 THEN "th"
       ELSE CASE n % 10 = 1 -> "st"
              [] n % 10 = 2 -> "nd"
              [] n % 10 = 3 -> "rd"
              [] OTHER -> "th">>

\* int(round(nan)) raises ValueError; the render loop stops at its first bar
RenderRaises(p1, p2) == \E m \in Metrics : IsNaNPct(p1[m]) \/ IsNaNPct(p2[m])

\* one player's bars: width and label per metric
Bars(p) == [m \in Metrics |-> [width |-> Round(p[m]), label |-> ordinal(Round(p[m]))]]

NoDict == <<>>

\* The comparison section, stage by stage.  Each stage takes the record of
\* what the section has computed so far and returns it with its own results
\* added.  err = "index": st.selectbox(..., index=1) has fewer than two
\* options and raises, nothing below it runs.  err = "iloc": .iloc[0] of no
\* rows raised.  err = "render": int(round(nan)) raised in the render loop.
PlayersStage(d, s1, s2) ==
  [comparison_df |-> ComparisonDf(d), players |-> PlayerList(ComparisonDf(d)),
   player1 |-> s1, player2 |-> s2, err |-> "none",
   position_df |-> <<>>, p1_raw |-> NoDict, p2_raw |-> NoDict,
   p1_percentiles |-> NoDict, p2_percentiles |-> NoDict,
   p1_bars |-> NoDict, p2_bars |-> NoDict]

SelectStage(c) ==
  IF Len(c.players) < 2 THEN [c EXCEPT !.err = "index"]
  ELSE IF ~HasPlayer(c.comparison_df, c.player1) \/ ~HasPlayer(c.comparison_df, c.player2)
  THEN [c EXCEPT !.err = "iloc"]
  ELSE c

PercentileStage(c) ==
  IF c.err # "none" THEN c
  ELSE [c EXCEPT
          !.position_df = PositionDf(c.comparison_df, PlayerData(c.comparison_df, c.player1)),
          !.p1_raw = RawPercentiles(
                       PositionDf(c.comparison_df, PlayerData(c.comparison_df, c.player1)),
                       PlayerData(c.comparison_df, c.player1)),
          !.p2_raw = RawPercentiles(
                       PositionDf(c.comparison_df, PlayerData(c.comparison_df, c.player1)),
                       PlayerData(c.comparison_df, c.player2))]

ReverseStage(c) ==
  IF c.err # "none" THEN c
  ELSE [c EXCEPT !.p1_percentiles = ReverseLowerBetter(c.p1_raw),
                 !.p2_percentiles = ReverseLowerBetter(c.p2_raw)]

RenderStage(c) ==
  IF c.err # "none" THEN c
  ELSE IF RenderRaises(c.p1_percentiles, c.p2_percentiles) THEN [c EXCEPT !.err = "render"]
  ELSE [c EXCEPT !.p1_bars = Bars(c.p1_percentiles), !.p2_bars = Bars(c.p2_percentiles)]

\* everything the comparison section computes from the table d it starts from
Comparison(d, s1, s2) ==
  RenderStage(ReverseStage(PercentileStage(SelectStage(PlayersStage(d, s1, s2)))))

\* the defaults of the two selectboxes: index 0 and index=1
DefaultPlayer1(d) ==
  LET players == PlayerList(ComparisonDf(d))
  IN  IF Len(players) >= 1 THEN players[1] ELSE None

DefaultPlayer2(d) ==
  LET players == PlayerList(ComparisonDf(d))
  IN  IF Len(players) >= 2 THEN players[2] ELSE None

\* variant of DfAfterRun: a filter that keeps every row hands back the table
\* itself, so the column assignment lands on it
AliasedDf(d, f) == IF Len(f) = Len(d) THEN f ELSE d

\* The source table after a run.  filtered_df is the result of boolean
\* indexing, which is always a new table, so the column assignment
\* filtered_df["state"] = ... never reaches df.
DfAfterRun(d, f) == d

(***************************************************************************)
(* The loaded table.  The program reads one fixed file; the model lets it  *)
(* be a sample roster less any MaxDropped of its rows (the rest kept in    *)
(* order).  Timed drills are in tenths of a second, jumps in inches.       *)
(* The roster holds: three complete QBs with forty 4.4, 4.6, 4.8; a        *)
(* complete WR and a complete record with a missing position, each under   *)
(* a name that also occurs earlier; two incomplete records; tied forty     *)
(* and vertical values; mapped schools (two of them in one state) and      *)
(* unmapped schools; six or seven values of every metric, so that the      *)
(* smallest top-N (5) truncates.                                           *)
(***************************************************************************)
Rec(pl, pos, sch, yr, f, v, b, bj, tc, sh) ==
  [player |-> pl, position |-> pos, school |-> sch, year |-> yr, forty |-> f,
   vertical |-> v, bench |-> b, broad_jump |-> bj, threecone |-> tc, shuttle |-> sh]

Roster ==
  << Rec("Adams", "QB",       "Alabama",  FirstYear,     44,  30,  20,  110, 70,  42),
     Rec("Baker", "QB",       "Auburn",   FirstYear + 1, 46,  32,  18,  115, 69,  43),
     Rec("Cole",  "QB",       "Texas",    LastYear,      48,  30,  25,  120, 71,  41),
     Rec("Baker", "WR",       "Stanford", LastYear,      44,  36,  15,  125, 68,  40),
     Rec("Adams", NoPosition, "Harvard",  FirstYear,     45,  34,  22,  118, 72,  44),
     Rec("Ford",  "QB",       "Alabama",  LastYear,      43,  NaN, 21,  122, NaN, 39),
     Rec("Evans", "WR",       "Yale",     FirstYear + 1, NaN, 33,  NaN, 112, 67,  45) >>

\* the rows of the roster at the places S, in order, with a fresh RangeIndex
SubTable(S) ==
  LET kept == SelectSeq([i \in DOMAIN Roster |-> i], LAMBDA i : i \in S)
  IN  [i \in DOMAIN kept |->
         LET r == Roster[kept[i]]
         IN  [idx |-> i, player |-> r.player, position |-> r.position,
              school |-> r.school, year |-> r.year, forty |-> r.forty,
              vertical |-> r.vertical, bench |-> r.bench,
              broad_jump |-> r.broad_jump, threecone |-> r.threecone,
              shuttle |-> r.shuttle]]

\* The year slider is built with the default (2010, 2023), which Streamlit
\* accepts only inside [min_year, max_year]: a table the program can run on
\* has a record of 2010 or earlier and one of 2023 or later.
SliderAccepts(d) == min_year(d) <= FirstYear /\ max_year(d) >= LastYear

Tables ==
  {SubTable(S) : S \in {T \in SUBSET DOMAIN Roster :
                          /\ Cardinality(T) >= Len(Roster) - MaxDropped
                          /\ SliderAccepts(SubTable(T))}}

\* the slider positions that are tried: its two ends
YearSample == {FirstYear, LastYear}

YearRanges(d) ==
  {<<lo, hi>> \in YearSample \X YearSample :
     lo <= hi /\ min_year(d) <= lo /\ hi <= max_year(d)}

\* the top-N slider: 5..50; the values that are tried
TopNSample == {n \in (TopNMin .. TopNMin + TopNSteps) \cup {TopNDefault} : n <= TopNMax}

(***************************************************************************)
(* State.                                                                  *)
(***************************************************************************)
VARIABLES
  df,                    \* the loaded, merged, numeric-coerced table
  year_range,            \* widget values
  selected_position,
  selected_event_label,
  top_n,
  player1,
  player2,
  filtered_df,           \* outputs of the last run of the script
  state_counts,
  top_performers,
  all_time_top,
  comparison_df,
  players,
  position_df,
  p1_raw,                \* p1_percentiles / p2_percentiles after the first loop
  p2_raw,
  p1_percentiles,        \* ... and after the reversal loop
  p2_percentiles,
  p1_bars,
  p2_bars,
  err                    \* "none", or the exception that ended the run

widgets == <<year_range, selected_position, selected_event_label, top_n, player1, player2>>

outputs == <<filtered_df, state_counts, top_performers, all_time_top, comparison_df,
             players, position_df, p1_raw, p2_raw, p1_percentiles, p2_percentiles,
             p1_bars, p2_bars, err>>

vars == <<df, widgets, outputs>>

metric == event_options[selected_event_label][1]

ascending_sort == event_options[selected_event_label][2]

(***************************************************************************)
(* One run of the script, top to bottom, on table d with the given widget  *)
(* values: the set of outcomes the run may have (a set because of the      *)
(* order of tied rows in the two sorts).                                   *)
(***************************************************************************)
Outcomes(d2, f, c, tops, alltimes) ==
  {[df |-> d2, filtered_df |-> f, state_counts |-> StateCounts(f),
    top_performers |-> tp, all_time_top |-> at, c |-> c] :
      tp \in tops, at \in alltimes}

\* the sections below the map run on the table as the map section left it
LowerSections(d2, f, pos, m, asc, n, s1, s2) ==
  UNION {Outcomes(d2, f, c, TopPerformers(f, m, asc, n), AllTimeTop(d2, pos, m, asc, n)) :
           c \in {Comparison(ComparisonSource(d2, f), s1, s2)}}

ScriptRun(d, yr, pos, label, n, s1, s2) ==
  UNION {UNION {LowerSections(d2, f, pos, event_options[label][1],
                              event_options[label][2], n, s1, s2) :
                  d2 \in {DfAfterRun(d, f)}} :
           f \in {WithState(ApplyFilters(d, yr, pos))}}

\* the state after a run with outcome o
Shows(o, yr, pos, label, n, s1, s2) ==
  /\ df' = o.df
  /\ year_range' = yr
  /\ selected_position' = pos
  /\ selected_event_label' = label
  /\ top_n' = n
  /\ player1' = s1
  /\ player2' = s2
  /\ filtered_df' = o.filtered_df
  /\ state_counts' = o.state_counts
  /\ top_performers' = o.top_performers
  /\ all_time_top' = o.all_time_top
  /\ comparison_df' = o.c.comparison_df
  /\ players' = o.c.players
  /\ position_df' = o.c.position_df
  /\ p1_raw' = o.c.p1_raw
  /\ p2_raw' = o.c.p2_raw
  /\ p1_percentiles' = o.c.p1_percentiles
  /\ p2_percentiles' = o.c.p2_percentiles
  /\ p1_bars' = o.c.p1_bars
  /\ p2_bars' = o.c.p2_bars
  /\ err' = o.c.err

Run(yr, pos, label, n, s1, s2) ==
  \E o \in ScriptRun(df, yr, pos, label, n, s1, s2) : Shows(o, yr, pos, label, n, s1, s2)

(***************************************************************************)
(* The first run of a session: every widget at its default.                *)
(***************************************************************************)
Init ==
  \E d \in Tables :
    \E o \in ScriptRun(d, <<FirstYear, LastYear>>, "All", event_labels[1], TopNDefault,
                       DefaultPlayer1(d), DefaultPlayer2(d)) :
      /\ df = d
      /\ year_range = <<FirstYear, LastYear>>
      /\ selected_position = "All"
      /\ selected_event_label = event_labels[1]
      /\ top_n = TopNDefault
      /\ player1 = DefaultPlayer1(d)
      /\ player2 = DefaultPlayer2(d)
      /\ filtered_df = o.filtered_df
      /\ state_counts = o.state_counts
      /\ top_performers = o.top_performers
      /\ all_time_top = o.all_time_top
      /\ comparison_df = o.c.comparison_df
      /\ players = o.c.players
      /\ position_df = o.c.position_df
      /\ p1_raw = o.c.p1_raw
      /\ p2_raw = o.c.p2_raw
      /\ p1_percentiles = o.c.p1_percentiles
      /\ p2_percentiles = o.c.p2_percentiles
      /\ p1_bars = o.c.p1_bars
      /\ p2_bars = o.c.p2_bars
      /\ err = o.c.err

(***************************************************************************)
(* Interactions.  Each changes one widget and re-runs the script.          *)
(***************************************************************************)
SetYearRange ==
  \E yr \in YearRanges(df) :
    /\ yr # year_range
    /\ Run(yr, selected_position, selected_event_label, top_n, player1, player2)

SetPosition ==
  \E pos \in {"All"} \cup positions(df) :
    /\ pos # selected_position
    /\ Run(year_range, pos, selected_event_label, top_n, player1, player2)

SetMetric ==
  \E label \in Range(event_labels) :
    /\ label # selected_event_label
    /\ Run(year_range, selected_position, label, top_n, player1, player2)

SetTopN ==
  \E n \in TopNSample :
    /\ n # top_n
    /\ Run(year_range, selected_position, selected_event_label, n, player1, player2)

\* the second selectbox raised in the last run: only the first one is shown
SelectPlayer1 ==
  \E s \in Range(players) :
    /\ s # player1
    /\ Run(year_range, selected_position, selected_event_label, top_n, s, player2)

SelectPlayer2 ==
  \E s \in Range(players) :
    /\ err # "index"
    /\ s # player2
    /\ Run(year_range, selected_position, selected_event_label, top_n, player1, s)

\* "Rerun" of the Streamlit menu: the same widget values, a new run
Rerun ==
  Run(year_range, selected_position, selected_event_label, top_n, player1, player2)

Next ==
  \/ SetYearRange
  \/ SetPosition
  \/ SetMetric
  \/ SetTopN
  \/ SelectPlayer1
  \/ SelectPlayer2
  \/ Rerun

Spec == Init /\ [][Next]_vars

(***************************************************************************)
(* Vocabulary of the properties, stated over the loaded table df and the   *)
(* widget values, independently of the operators above.                    *)
(***************************************************************************)
LowerIsBetter == {"forty", "threecone", "shuttle"}

HigherIsBetter == {"vertical", "bench", "broad_jump"}

\* a record with a value for each of the six compared metrics
Complete(r) == \A m \in Metrics : r[m] # NaN

\* the record a selectable name stands for: the first complete one of that name
EntityIndex(name) ==
  CHOOSE i \in DOMAIN df :
    /\ df[i].player = name /\ Complete(df[i])
    /\ \A j \in 1 .. (i - 1) : ~(df[j].player = name /\ Complete(df[j]))

EntityA == df[EntityIndex(player1)]

EntityB == df[EntityIndex(player2)]

\* both loops of the comparison ran in the last run
Compared == err \in {"none", "render"}

\* the places in df of the selectable records at entity A's position
PeerGroup ==
  {i \in DOMAIN df : /\ Complete(df[i])
                     /\ df[i].position # NoPosition
                     /\ df[i].position = EntityA.position}

\* the rational p = <<num, den>> is 100 * c / n
IsPercentOf(p, c, n) == n > 0 /\ p[2] > 0 /\ p[1] * n = 100 * c * p[2]

\* p is the strict-less-than percentile of value x for metric m in PeerGroup
IsRawPercentile(p, x, m) ==
  IsPercentOf(p, Cardinality({i \in PeerGroup : df[i][m] < x}), Cardinality(PeerGroup))

(***************************************************************************)
(* C1.  Whenever the comparison is shown, for each of the six metrics and  *)
(* for both selected entities (B also when its position differs from A's)  *)
(* the raw percentile is 100 * #{pool values < the entity's value} / #pool,*)
(* the pool being the selectable records at entity A's position, A's own   *)
(* record among them.  A pool of one record (A itself) gives A raw         *)
(* percentile 0 for every metric; with pool forty values 4.4, 4.6, 4.8     *)
(* the entity with 4.4 is shown 100 and the entity with 4.8 is shown 33.   *)
(***************************************************************************)
C1_RawPercentile ==
  err = "none" =>
    /\ EntityIndex(player1) \in PeerGroup
    /\ \A m \in Metrics :
         /\ IsRawPercentile(p1_raw[m], EntityA[m], m)
         /\ IsRawPercentile(p2_raw[m], EntityB[m], m)
    /\ Cardinality(PeerGroup) = 1 =>
         \A m \in Metrics : p1_raw[m][1] = 0
    /\ (Cardinality(PeerGroup) = 3 /\ {df[i].forty : i \in PeerGroup} = {44, 46, 48}) =>
         /\ EntityA.forty = 44 => p1_bars.forty.width = 100
         /\ EntityA.forty = 48 => p1_bars.forty.width = 33
         /\ EntityB.forty = 44 => p2_bars.forty.width = 100
         /\ EntityB.forty = 48 => p2_bars.forty.width = 33

\* the 4.4 / 4.6 / 4.8 scenario, A the fastest and B the slowest of the pool
C1_Witness ==
  /\ err = "none"
  /\ Cardinality(PeerGroup) = 3
  /\ {df[i].forty : i \in PeerGroup} = {44, 46, 48}
  /\ EntityA.forty = 44 /\ p1_bars.forty.width = 100
  /\ EntityB.forty = 48 /\ p2_bars.forty.width = 33

\* entity B at another position than A, measured against A's pool
C1_OtherPositionReached ==
  /\ err = "none"
  /\ Cardinality(PeerGroup) >= 2
  /\ EntityB.position # EntityA.position
  /\ \E m \in Metrics : p2_raw[m][1] > 0

\* a pool of one record and an entity B outside it that beats it
C1_PoolOfOneReached ==
  /\ err = "none"
  /\ Cardinality(PeerGroup) = 1
  /\ \E m \in Metrics : p2_raw[m][1] = 100 * p2_raw[m][2]

(***************************************************************************)
(* C2.  For every metric M the percentile pool is exactly the M values of  *)
(* all records of the whole table at entity A's position whose M value is  *)
(* not null, whatever their other metrics.                                 *)
(***************************************************************************)
C2_PoolIsEveryNonNullValue ==
  Compared =>
    \A m \in Metrics :
      {position_df[i].idx : i \in DOMAIN position_df}
        = {i \in DOMAIN df : /\ df[i][m] # NaN
                             /\ df[i].position # NoPosition
                             /\ df[i].position = EntityA.position}

(***************************************************************************)
(* C3.  When the pool of values is empty, every percentile is the          *)
(* undefined sentinel and the render step (rounding, ordinal label, bar    *)
(* width) completes without raising.                                       *)
(***************************************************************************)
C3_EmptyPoolRenders ==
  (Compared /\ PeerGroup = {}) =>
    /\ \A m \in Metrics : IsNaNPct(p1_percentiles[m]) /\ IsNaNPct(p2_percentiles[m])
    /\ err = "none"

(***************************************************************************)
(* C4.  Whenever the comparison is shown, the reported percentile is       *)
(* 100 - raw for forty, threecone and shuttle and is the raw percentile    *)
(* for vertical, bench and broad_jump, for both entities, and lies in      *)
(* [0, 100].                                                               *)
(***************************************************************************)
IsReported(rep, raw, m) ==
  /\ rep[2] > 0 /\ raw[2] > 0
  /\ IF m \in LowerIsBetter
     THEN rep[1] * raw[2] = (100 * raw[2] - raw[1]) * rep[2]
     ELSE rep[1] * raw[2] = raw[1] * rep[2]
  /\ 0 <= rep[1] /\ rep[1] <= 100 * rep[2]

C4_ReportedPercentile ==
  err = "none" =>
    \A m \in Metrics :
      /\ IsReported(p1_percentiles[m], p1_raw[m], m)
      /\ IsReported(p2_percentiles[m], p2_raw[m], m)

\* a lower-is-better and a higher-is-better metric, both with a raw percentile
\* strictly between 0 and 100 that is not 50
C4_Witness ==
  /\ err = "none"
  /\ \E m \in LowerIsBetter :
       /\ p2_raw[m][1] > 0 /\ p2_raw[m][1] < 100 * p2_raw[m][2]
       /\ 2 * p2_raw[m][1] # 100 * p2_raw[m][2]
       /\ p2_percentiles[m] # p2_raw[m]
  /\ \E m \in HigherIsBetter :
       /\ p2_raw[m][1] > 0 /\ p2_raw[m][1] < 100 * p2_raw[m][2]
       /\ p2_percentiles[m] = p2_raw[m]

(***************************************************************************)
(* C5.  A step that leaves the two selected entities as they are (any      *)
(* change of the year range, the position filter, the ranking metric or    *)
(* top-N, or a plain re-run) leaves the list of selectable entities, the   *)
(* peer pool and every percentile and bar of both entities as they are.    *)
(***************************************************************************)
C5_SidebarIndependent ==
  [][(player1' = player1 /\ player2' = player2) =>
       /\ players' = players
       /\ comparison_df' = comparison_df
       /\ position_df' = position_df
       /\ p1_raw' = p1_raw /\ p2_raw' = p2_raw
       /\ p1_percentiles' = p1_percentiles /\ p2_percentiles' = p2_percentiles
       /\ p1_bars' = p1_bars /\ p2_bars' = p2_bars
       /\ err' = err]_vars

\* every sidebar widget off its default, and a peer of the pool that the
\* sidebar filters remove from the filtered view
C5_Witness ==
  /\ err = "none"
  /\ year_range # <<FirstYear, LastYear>>
  /\ selected_position # "All"
  /\ selected_event_label # event_labels[1]
  /\ top_n # TopNDefault
  /\ \E i \in DOMAIN position_df :
       \A k \in DOMAIN filtered_df : filtered_df[k].idx # position_df[i].idx

(***************************************************************************)
(* C6.  Top Performers holds no record with a null metric value, has       *)
(* exactly min(top_n, number of non-null records of the filtered subset)   *)
(* rows, each a different record of the subset, is ascending by the metric *)
(* for forty, threecone and shuttle and descending otherwise, and no       *)
(* record left out is better than the last one kept.                       *)
(***************************************************************************)
NonNullRows == {k \in DOMAIN filtered_df : filtered_df[k][metric] # NaN}

Shown(t) == {t[k].idx : k \in DOMAIN t}

C6_TopPerformers ==
  /\ \A k \in DOMAIN top_performers : top_performers[k].value # NaN
  /\ Len(top_performers) = Min(top_n, Cardinality(NonNullRows))
  /\ Len(top_performers) <= top_n
  /\ Len(top_performers) <= Len(filtered_df)
  /\ \A k \in DOMAIN top_performers :
       \E i \in NonNullRows :
         /\ filtered_df[i].idx = top_performers[k].idx
         /\ filtered_df[i][metric] = top_performers[k].value
         /\ filtered_df[i].player = top_performers[k].player
  /\ \A k, l \in DOMAIN top_performers :
       k < l =>
         /\ top_performers[k].idx # top_performers[l].idx
         /\ IF metric \in LowerIsBetter
            THEN top_performers[k].value <= top_performers[l].value
            ELSE top_performers[k].value >= top_performers[l].value
  /\ \A i \in NonNullRows :
       filtered_df[i].idx \notin Shown(top_performers) =>
         IF metric \in LowerIsBetter
         THEN filtered_df[i][metric] >= top_performers[Len(top_performers)].value
         ELSE filtered_df[i][metric] <= top_performers[Len(top_performers)].value

\* a descending metric, a null value dropped, and more values than top_n
C6_Witness ==
  /\ metric \in HigherIsBetter
  /\ \E k \in DOMAIN filtered_df : filtered_df[k][metric] = NaN
  /\ Cardinality(NonNullRows) > top_n
  /\ Len(top_performers) = top_n

\* an ascending metric that truncates
C6_AscendingReached ==
  /\ metric \in LowerIsBetter
  /\ Cardinality(NonNullRows) > top_n
  /\ Len(top_performers) = top_n

(***************************************************************************)
(* C7.  The filtered subset holds exactly the records with                 *)
(* yearMin <= year <= yearMax and, unless the position is "All", with the  *)
(* selected position, in table order and unchanged; filtering by position  *)
(* first and by year second gives the same subset; an empty result is an   *)
(* empty subset.                                                           *)
(***************************************************************************)
Kept ==
  {i \in DOMAIN df :
     /\ year_range[1] <= df[i].year /\ df[i].year <= year_range[2]
     /\ selected_position # "All" => df[i].position = selected_position}

PositionThenYear ==
  YearFilter(IF selected_position # "All" THEN PositionFilter(df, selected_position) ELSE df,
             year_range)

C7_Filter ==
  /\ Shown(filtered_df) = Kept
  /\ Len(filtered_df) = Cardinality(Kept)
  /\ \A k, l \in DOMAIN filtered_df : k < l => filtered_df[k].idx < filtered_df[l].idx
  /\ \A k \in DOMAIN filtered_df :
       \A c \in DOMAIN df[1] : filtered_df[k][c] = df[filtered_df[k].idx][c]
  /\ [k \in DOMAIN filtered_df |-> filtered_df[k].idx]
       = [k \in DOMAIN PositionThenYear |-> PositionThenYear[k].idx]

\* a position and a one-year range that no record has together
C7_Witness ==
  /\ selected_position # "All"
  /\ year_range[1] = year_range[2]
  /\ filtered_df = <<>>
  /\ \E i \in DOMAIN df : df[i].position = selected_position
  /\ \E i \in DOMAIN df : df[i].year = year_range[1]

\* both predicates remove records and some record passes both
C7_PartialReached ==
  /\ selected_position # "All"
  /\ filtered_df # <<>>
  /\ \E i \in DOMAIN df : df[i].position = selected_position /\ i \notin Kept
  /\ \E i \in DOMAIN df : df[i].year = year_range[1] /\ i \notin Kept

(***************************************************************************)
(* C8.  state_counts maps each region to the number of records of the      *)
(* filtered subset whose school the lookup maps to it; unmapped schools    *)
(* count nowhere, no region has count 0, the counts add up to the number   *)
(* of mapped records, and with every school unmapped the mapping is empty. *)
(***************************************************************************)
MappedRows == {k \in DOMAIN filtered_df : filtered_df[k].school \in DOMAIN school_state_map}

RowsOfRegion(s) == {k \in MappedRows : school_state_map[filtered_df[k].school] = s}

RECURSIVE SumOver(_, _)
SumOver(f, S) ==
  IF S = {} THEN 0
  ELSE LET x == CHOOSE y \in S : TRUE IN f[x] + SumOver(f, S \ {x})

C8_StateCounts ==
  /\ \A s \in DOMAIN state_counts :
       state_counts[s] = Cardinality(RowsOfRegion(s)) /\ state_counts[s] > 0
  /\ \A k \in MappedRows : school_state_map[filtered_df[k].school] \in DOMAIN state_counts
  /\ SumOver(state_counts, DOMAIN state_counts) = Cardinality(MappedRows)
  /\ MappedRows = {} => DOMAIN state_counts = {}

\* two schools of one region counted together, beside an unmapped school
C8_Witness ==
  /\ \E k, l \in MappedRows :
       /\ filtered_df[k].school # filtered_df[l].school
       /\ school_state_map[filtered_df[k].school] = school_state_map[filtered_df[l].school]
       /\ state_counts[school_state_map[filtered_df[k].school]] >= 2
  /\ \E k \in DOMAIN filtered_df : k \notin MappedRows
  /\ Cardinality(DOMAIN state_counts) >= 2

\* records, none with a mapped school
C8_AllUnmappedReached ==
  /\ filtered_df # <<>>
  /\ MappedRows = {}
  /\ DOMAIN state_counts = {}

(***************************************************************************)
(* C9.  In Top Performers and in All-Time Best, records with equal metric  *)
(* values appear in table order, and of tied records the earlier ones are  *)
(* the ones that survive the truncation.                                   *)
(***************************************************************************)
TiesInTableOrder(t) ==
  \A k, l \in DOMAIN t : (k < l /\ t[k].value = t[l].value) => t[k].idx < t[l].idx

EarlierTiesSurvive(t, source) ==
  \A k \in DOMAIN t :
    \A i \in DOMAIN source :
      (source[i][metric] = t[k].value /\ source[i].idx < t[k].idx) => source[i].idx \in Shown(t)

C9_TiesKeepTableOrder ==
  /\ TiesInTableOrder(top_performers)
  /\ TiesInTableOrder(all_time_top)
  /\ EarlierTiesSurvive(top_performers, filtered_df)

(***************************************************************************)
(* C10.  No interaction changes the loaded table: no record and no column  *)
(* is added, removed or modified, and the state column written onto the    *)
(* filtered view is never a column of the loaded table or of the           *)
(* comparison table.  A run with unchanged widget values shows the same    *)
(* filtered view, counts, ranked values and comparison again.              *)
(***************************************************************************)
NoStateColumn(t) == \A i \in DOMAIN t : "state" \notin DOMAIN t[i]

RankedValues(t) == [k \in DOMAIN t |-> t[k].value]

C10_SourceUnchanged ==
  [][/\ df' = df
     /\ NoStateColumn(df')
     /\ NoStateColumn(comparison_df')
     /\ widgets' = widgets =>
          /\ filtered_df' = filtered_df
          /\ state_counts' = state_counts
          /\ RankedValues(top_performers') = RankedValues(top_performers)
          /\ RankedValues(all_time_top') = RankedValues(all_time_top)
          /\ <<comparison_df, players, position_df, p1_raw, p2_raw, p1_percentiles,
               p2_percentiles, p1_bars, p2_bars, err>>'
               = <<comparison_df, players, position_df, p1_raw, p2_raw, p1_percentiles,
                   p2_percentiles, p1_bars, p2_bars, err>>]_vars

\* after interactions: the filtered view keeps every record of the table and
\* carries the state column, which the table does not
C10_Witness ==
  /\ selected_event_label # event_labels[1]
  /\ player2 # DefaultPlayer2(df)
  /\ Len(filtered_df) = Len(df)
  /\ \A k \in DOMAIN filtered_df : "state" \in DOMAIN filtered_df[k]
  /\ \E k \in DOMAIN filtered_df : filtered_df[k].state # NoState
  /\ NoStateColumn(df)

====
